---------------------------- MODULE Spec2Model ----------------------------
(***************************************************************************)
(* Kriging-based interference power constraint: the Monte-Carlo harness of *)
(* main.py (the trial loop and dosim) over the kriging stages it imports.  *)
(*                                                                         *)
(* Numbers.  Decibel quantities are integers (1 unit = 1 dB, variances in  *)
(* dB^2), linear powers are integers in units of 1/LIN of a milliwatt, and *)
(* every floating-point operation rounds to that grid (floor).  IEEE       *)
(* specials are kept: a value is a record [k, v] with k = "fin" (v the     *)
(* number), "inf" (v = 1 or -1) or "nan".                                  *)
(***************************************************************************)
EXTENDS Integers, Sequences, FiniteSets, TLC

(* ---------------- measurement configuration (main.py:47-63) ------------ *)
R_MEASURE == 100
STDEV_PU == 8
STDEV_SU == STDEV_PU
PUTX_X == 0 - 1000
PUTX_Y == R_MEASURE
SUTX_X == 1000
SUTX_Y == R_MEASURE
PTX == 30
ETA10 == 35
RX_X == R_MEASURE
RX_Y == R_MEASURE
D_MAX == 2 * R_MEASURE
N_SEMIVAR == 20

(* ---------------- bounds of the model ---------------------------------- *)
loop == 2

(* ---------------- floating-point values -------------------------------- *)
Fin(v) == [k |-> "fin", v |-> v]
PosInf == [k |-> "inf", v |-> 1]
NegInf == [k |-> "inf", v |-> 0 - 1]
NaN == [k |-> "nan", v |-> 0]

IsFin(a) == a.k = "fin"

XNeg(a) == IF a.k = "nan" THEN NaN ELSE [k |-> a.k, v |-> 0 - a.v]

XAdd(a, b) ==
    IF a.k = "nan" \/ b.k = "nan" THEN NaN
    ELSE IF a.k = "inf" /\ b.k = "inf" THEN (IF a.v = b.v THEN a ELSE NaN)
    ELSE IF a.k = "inf" THEN a
    ELSE IF b.k = "inf" THEN b
    ELSE Fin(a.v + b.v)

XSub(a, b) == XAdd(a, XNeg(b))

XLess(a, b) ==
    IF a.k = "nan" \/ b.k = "nan" THEN FALSE
    ELSE IF a.k = "inf" THEN a.v < 0 /\ ~(b.k = "inf" /\ b.v < 0)
    ELSE IF b.k = "inf" THEN b.v > 0
    ELSE a.v < b.v

Sign(v) == IF v > 0 THEN 1 ELSE IF v < 0 THEN 0 - 1 ELSE 0

(* a * b / scale, for a product of two fixed-point numbers *)
XMulScaled(a, b, scale) ==
    IF a.k = "nan" \/ b.k = "nan" THEN NaN
    ELSE IF a.k = "inf" \/ b.k = "inf"
         THEN (IF Sign(a.v) * Sign(b.v) = 0 THEN NaN
               ELSE [k |-> "inf", v |-> Sign(a.v) * Sign(b.v)])
    ELSE Fin((a.v * b.v) \div scale)

XDivInt(a, d) == IF IsFin(a) THEN Fin(a.v \div d) ELSE a

RECURSIVE IsqrtB(_, _, _)
IsqrtB(x, lo, hi) ==
    IF lo >= hi THEN lo
    ELSE LET mid == (lo + hi + 1) \div 2
         IN IF mid * mid <= x THEN IsqrtB(x, mid, hi) ELSE IsqrtB(x, lo, mid - 1)

(* floor of the square root of x >= 0 *)
Isqrt(x) == IsqrtB(x, 0, IF x < 46340 THEN x ELSE 46340)

(* np.sqrt: nan (and a warning, no exception) below zero *)
XSqrt(a) ==
    IF a.k = "nan" THEN NaN
    ELSE IF a.k = "inf" THEN (IF a.v > 0 THEN PosInf ELSE NaN)
    ELSE IF a.v < 0 THEN NaN
    ELSE Fin(Isqrt(a.v))

(* linear units per milliwatt *)
LIN == 10000

(* 10^(m/10), m = 0..9, in units of 1/LIN *)
DecibelTable == <<10000, 12589, 15849, 19953, 25119, 31623, 39811, 50119, 63096, 79433>>

RECURSIVE Pow10Int(_)
Pow10Int(e) == IF e <= 0 THEN 1 ELSE 10 * Pow10Int(e - 1)

(* 10.0 ** (0.1 * p) for an integer p [dB], in units of 1/LIN *)
DbToLinear(p) ==
    LET dec == p \div 10
        m == p % 10
    IN IF dec >= 0 THEN DecibelTable[m + 1] * Pow10Int(dec)
       ELSE DecibelTable[m + 1] \div Pow10Int(0 - dec)

XPow10(a) ==
    IF a.k = "nan" THEN NaN
    ELSE IF a.k = "inf" THEN (IF a.v > 0 THEN PosInf ELSE Fin(0))
    ELSE Fin(DbToLinear(a.v))

(* floor(10 * log10((a / LIN) / d)) for a linear value a > 0 in units of  *)
(* 1/LIN and an integer d > 0                                              *)
RECURSIVE TenLog10(_, _)
TenLog10(a, d) ==
    IF a >= 10 * LIN * d THEN 10 + TenLog10(a \div 10, d)
    ELSE IF a < LIN * d THEN TenLog10(10 * a, d) - 10
    ELSE Cardinality({m \in 1..10 : DecibelTable[m] * d <= a}) - 1

(* 10.0 * np.log10(a / d): -inf at zero (a warning, no exception) *)
XTenLog10(a, d) ==
    IF a.k = "nan" THEN NaN
    ELSE IF a.k = "inf" THEN (IF a.v > 0 THEN PosInf ELSE NaN)
    ELSE IF a.v < 0 THEN NaN
    ELSE IF a.v = 0 THEN NegInf
    ELSE Fin(TenLog10(a.v, d))

(* ---------------- outcome of a stage: a value or a raised error -------- *)
Ok(v) == [ok |-> TRUE, val |-> v]
Raise(e) == [ok |-> FALSE, error |-> e]

(* ---------------- geometry and propagation (kriging module) ------------ *)
(* Euclidean distance between two points <<x, y>> [m] *)
distance(p, q) ==
    Isqrt((p[1] - q[1]) * (p[1] - q[1]) + (p[2] - q[2]) * (p[2] - q[2]))

(* log-distance path loss 10 * eta * log10(d) [dB] *)
pathloss(d) == (ETA10 * TenLog10(d * LIN, 1)) \div 10

(* ---------------- 4.1 semivariogram estimator -------------------------- *)
(* a sample is <<x, y, value>> *)
Loc(s) == <<s[1], s[2]>>

Pairs(data) == {pr \in (1..Len(data)) \X (1..Len(data)) : pr[1] < pr[2]}

(* the bin of a pair distance d in [0, dmax]: nbins equal-width intervals *)
BinOf(d, dmax, nbins) ==
    IF (d * nbins) \div dmax >= nbins THEN nbins - 1 ELSE (d * nbins) \div dmax

PairsInBin(data, dmax, nbins, b) ==
    {pr \in Pairs(data) :
        LET d == distance(Loc(data[pr[1]]), Loc(data[pr[2]]))
        IN d <= dmax /\ BinOf(d, dmax, nbins) = b}

HalfSqDiff(data, pr) ==
    ((data[pr[1]][3] - data[pr[2]][3]) * (data[pr[1]][3] - data[pr[2]][3])) \div 2

RECURSIVE SumOver(_, _, _)
SumOver(data, prs, acc) ==
    IF prs = {} THEN acc
    ELSE LET pr == CHOOSE q \in prs : TRUE
         IN SumOver(data, prs \ {pr}, acc + HalfSqDiff(data, pr))

(* bins 0..b-1 as a sequence of <<lag, semivariance>>, empty bins dropped *)
RECURSIVE BinPoints(_, _, _, _)
BinPoints(data, dmax, nbins, b) ==
    IF b = 0 THEN <<>>
    ELSE LET prs == PairsInBin(data, dmax, nbins, b - 1)
             rest == BinPoints(data, dmax, nbins, b - 1)
         IN IF prs = {} THEN rest
            ELSE Append(rest, <<((2 * b - 1) * dmax) \div (2 * nbins),
                                SumOver(data, prs, 0) \div Cardinality(prs)>>)

gen_emprical_semivar(data, dmax, nbins) ==
    IF Len(data) < 2 THEN Raise("InsufficientDataError")
    ELSE Ok(BinPoints(data, dmax, nbins, nbins))

(* ---------------- 4.2 semivariogram model fitter ----------------------- *)
(* gamma(h; nugget, sill, range): non-decreasing, gamma(0) = nugget,       *)
(* gamma(h) = nugget + sill from h = range on                              *)
semivar(h, nug, sill, ran) ==
    nug + (sill * (IF h < ran THEN h ELSE ran)) \div ran

NuggetGrid == {0, 16}
SillGrid == {32, 64, 128}
RangeGrid == {50, 100, 200}
ParamGrid == {<<a, b, c>> : a \in NuggetGrid, b \in SillGrid, c \in RangeGrid}

RECURSIVE SumSqResiduals(_, _, _)
SumSqResiduals(pts, prm, k) ==
    IF k = 0 THEN 0
    ELSE LET r == pts[k][2] - semivar(pts[k][1], prm[1], prm[2], prm[3])
         IN r * r + SumSqResiduals(pts, prm, k - 1)

LexLeq(p, q) ==
    \/ p[1] < q[1]
    \/ p[1] = q[1] /\ p[2] < q[2]
    \/ p[1] = q[1] /\ p[2] = q[2] /\ p[3] <= q[3]

(* least squares over the parameter grid (nugget >= 0, sill >= 0, range > 0) *)
fit_semivar(pts) ==
    IF Len(pts) < 3 THEN Raise("FitConvergenceError")
    ELSE LET sse(p) == SumSqResiduals(pts, p, Len(pts))
         IN Ok(CHOOSE p \in ParamGrid :
                 \A q \in ParamGrid :
                    sse(p) < sse(q) \/ (sse(p) = sse(q) /\ LexLeq(p, q)))

(* ---------------- 4.3 ordinary kriging solver -------------------------- *)
(* C(h) = (nugget + sill) - gamma(h) *)
(* a covariance that leaves the nugget out *)
Cov_nonugget(h, prm) == prm[2] - semivar(h, prm[1], prm[2], prm[3])

Cov(h, prm) == (prm[1] + prm[2]) - semivar(h, prm[1], prm[2], prm[3])

(* the (n+1) x (n+1) bordered covariance matrix *)
gen_mat_for_kriging(locs, prm) ==
    LET m == Len(locs)
    IN [r \in 1..(m + 1) |->
         [c \in 1..(m + 1) |->
            IF r <= m /\ c <= m THEN Cov(distance(locs[r], locs[c]), prm)
            ELSE IF r = m + 1 /\ c = m + 1 THEN 0
            ELSE 1]]

(* right-hand side: covariances to the query, then 1 *)
RhsVector(locs, q, prm) ==
    [r \in 1..(Len(locs) + 1) |->
        IF r <= Len(locs) THEN Cov(distance(locs[r], q), prm) ELSE 1]

DropAt(s, j) == [k \in 1..(Len(s) - 1) |-> IF k < j THEN s[k] ELSE s[k + 1]]

Minor(m, j) == [r \in 1..(Len(m) - 1) |-> DropAt(m[r + 1], j)]

RECURSIVE Det(_)
RECURSIVE DetRow(_, _)
DetRow(m, j) ==
    IF j = 0 THEN 0
    ELSE (IF j % 2 = 1 THEN 1 ELSE 0 - 1) * m[1][j] * Det(Minor(m, j)) + DetRow(m, j - 1)
Det(m) == IF Len(m) = 0 THEN 1 ELSE DetRow(m, Len(m))

ReplaceCol(m, j, b) ==
    [r \in 1..Len(m) |-> [c \in 1..Len(m) |-> IF c = j THEN b[r] ELSE m[r][c]]]

RECURSIVE Dot(_, _, _)
Dot(u, v, k) == IF k = 0 THEN 0 ELSE u[k] * v[k] + Dot(u, v, k - 1)

(* floor of num / den for den # 0 *)
FloorDiv(num, den) == IF den > 0 THEN num \div den ELSE (0 - num) \div (0 - den)

(* Solve M w = b exactly (Cramer); estimate = sum w_i value_i, variance =   *)
(* (nugget + sill) - sum w_i C_i - mu; both rounded to the grid.           *)
ordinary_kriging(mat, locs, values, q, prm) ==
    LET m == Len(locs)
        d == Det(mat)
        b == RhsVector(locs, q, prm)
        num == [j \in 1..(m + 1) |-> Det(ReplaceCol(mat, j, b))]
    IN IF d = 0 THEN Raise("SingularSystemError")
       ELSE Ok([est |-> FloorDiv(Dot(num, values, m), d),
                var |-> FloorDiv((prm[1] + prm[2]) * d - Dot(num, b, m) - num[m + 1], d)])

(* scipy.special.erfinv(2 * pout - 1), pout in tenths, value in 1/ERF_SCALE: *)
(* -inf and +inf at the boundary (no exception), nan outside [-1, 1]       *)
ERF_SCALE == 10000
ErfinvTable == <<0, 1791, 3708, 5951, 9062>>
erfinv(p) ==
    LET t == 2 * p - 10
        a == IF t < 0 THEN 0 - t ELSE t
    IN IF a > 10 THEN NaN
       ELSE IF a = 10 THEN (IF t < 0 THEN NegInf ELSE PosInf)
       ELSE Fin(Sign(t) * ErfinvTable[(a \div 2) + 1])

(* ---------------- dosim (main.py:65-100) ------------------------------- *)
PUTX == <<PUTX_X, PUTX_Y>>
SUTX == <<SUTX_X, SUTX_Y>>
RX == <<RX_X, RX_Y>>

(* x[:n], y[:n], prx[:n] *)
(* a slice shifted by one, which takes the query point in *)
train_slice_shifted(s, m) == SubSeq(s, 2, m + 1)

train_slice(s, m) == SubSeq(s, 1, m)

(* err = prx_est - prx[n] *)
interp_err(prx_est, prx_q) == prx_est - prx_q

(* imax_avg = prx_est - sir_d_db + sqrt(2 (kvar + STDEV_SU^2)) erfinv(2 pout - 1) *)
imax_avg(prx_est, sir, kvar, p) ==
    XAdd(Fin(prx_est - sir),
         XMulScaled(XSqrt(Fin(2 * (kvar + STDEV_SU * STDEV_SU))), erfinv(p), ERF_SCALE))

l_su == pathloss(distance(SUTX, RX))

(* the path loss taken off instead of added *)
pmax_est_minus(imax) == XSub(imax, Fin(l_su))

(* pmax_est = imax_avg + l_su *)
pmax_est(imax) == XAdd(imax, Fin(l_su))

(* sir = prx[n] - (pmax_est - l_su + normal(0, STDEV_SU)) *)
realized_sir(prx_q, pmax, su) ==
    XSub(Fin(prx_q), XAdd(XSub(pmax, Fin(l_su)), Fin(su)))

(* main.py:90-100 on a kriging result (prx_est, kvar) *)
power_rule(prx_est, kvar, prx_q, su, sir, p) ==
    LET imax == imax_avg(prx_est, sir, kvar, p)
        pmax == pmax_est(imax)
    IN [est |-> prx_est, kvar |-> kvar, prx_q |-> prx_q, su |-> su,
        err |-> interp_err(prx_est, prx_q), imax |-> imax, pmax |-> pmax,
        sir |-> realized_sir(prx_q, pmax, su)]

(* One call of dosim on the values dr the generator yields: dr.locs the    *)
(* n+1 locations on the circle, dr.z the shadowing vector, dr.su the       *)
(* secondary shadowing draw.  A stage's error passes through unchanged.    *)
dosim(sir, p, m, dr) ==
    LET locs == [k \in 1..(m + 1) |-> IF k = m + 1 THEN RX ELSE dr.locs[k]]
        prx == [k \in 1..(m + 1) |-> PTX - pathloss(distance(PUTX, locs[k])) + dr.z[k]]
        x_train == train_slice(locs, m)
        prx_train == train_slice(prx, m)
        data == [k \in 1..m |-> <<x_train[k][1], x_train[k][2], prx_train[k]>>]
        sv == gen_emprical_semivar(data, D_MAX, N_SEMIVAR)
        param == IF sv.ok THEN fit_semivar(sv.val) ELSE sv
        kr == IF param.ok
              THEN ordinary_kriging(gen_mat_for_kriging(x_train, param.val),
                                    x_train, prx_train, RX, param.val)
              ELSE param
    IN IF ~kr.ok THEN kr
       ELSE Ok([param |-> param.val, locs |-> SubSeq(locs, 1, m),
                values |-> SubSeq(prx, 1, m)]
               @@ power_rule(kr.val.est, kr.val.var, prx[m + 1], dr.su, sir, p))

(* ---------------- the harness (main.py:102-124) ------------------------ *)
VARIABLES
    pout,        \* target outage probability, in tenths
    sir_d_db,    \* target SIR [dB]
    n,           \* number of measurement samples
    i,           \* index of the trial loop
    pc,          \* the statement the harness is at
    res,         \* the tuple the last call of dosim returned
    error,       \* the exception that ended the run, or "none"
    cnt_outage, kstdev_avg, rmse, psu_avg,
    report,      \* the four printed statistics
    rng,         \* np.random's global generator: its position in the stream
    hist,        \* history: one record per call of dosim that returned
    contrib,     \* history: how many times each accumulator was added to
    krig         \* a kriging query and its result (the solver on its own)

vars == <<pout, sir_d_db, n, i, pc, res, error, cnt_outage, kstdev_avg, rmse,
          psu_avg, report, rng, hist, contrib, krig>>

(* the configurations tried *)
PoutSet == {0, 1, 5, 10}
SirSet == {8, 10}
NSet == {1, 3, 4}

(* what the generator may yield: locations on the measurement circle, ...  *)
BaseLocs ==
    { << <<100, 0>>, <<0, 100>>, <<0 - 60, 80>>, <<0, 0 - 100>>, <<0 - 100, 0>> >>,
      << <<100, 0>>, <<0, 100>>, <<0 - 100, 0>>, <<0, 0 - 100>>, <<0 - 60, 80>> >>,
      << <<100, 0>>, <<100, 0>>, <<0, 100>>, <<0 - 60, 80>>, <<0, 0 - 100>> >> }
(* ... shadowing [dB] at the training locations and at the query, ...      *)
TrainFields == { <<0 - 8, 0, 8, 0>>, <<8, 8, 0 - 8, 8>> }
QueryFields == {0 - 8, 8}
(* ... and the secondary link's shadowing [dB]                             *)
SuFields == {0 - 2, 8}

Draws(m) ==
    {[locs |-> [k \in 1..(m + 1) |-> b[k]],
      z |-> [k \in 1..(m + 1) |-> IF k = m + 1 THEN zq ELSE t[k]],
      su |-> su] : b \in BaseLocs, t \in TrainFields, zq \in QueryFields, su \in SuFields}

(* draws of the generator per call of dosim: locations, field, su shadowing *)
DRAWS_BEFORE_STAGES == 2
DRAWS_PER_TRIAL == 3

NoRes == [sir |-> NaN, kvar |-> NaN, err |-> NaN, pmax |-> NaN]
NoReport == [printed |-> FALSE]
NoKrig == [asked |-> FALSE]
Accumulators == {"cnt_outage", "kstdev_avg", "rmse", "psu_avg"}

InitHarness ==
    /\ i = 0
    /\ pc = "call"
    /\ res = NoRes
    /\ error = "none"
    /\ cnt_outage = 0
    /\ kstdev_avg = Fin(0)
    /\ rmse = Fin(0)
    /\ psu_avg = Fin(0)
    /\ report = NoReport
    /\ rng = 0
    /\ hist = <<>>
    /\ contrib = [a \in Accumulators |-> 0]
    /\ krig = NoKrig

Init ==
    /\ pout \in PoutSet
    /\ sir_d_db \in SirSet
    /\ n \in NSet
    /\ InitHarness

(* every call dosim(sir, p, m) with the draws it may get, and its outcome *)
DosimCalls ==
    UNION {{<<s, p, m, dr, dosim(s, p, m, dr)>> : s \in SirSet, p \in PoutSet, dr \in Draws(m)}
           : m \in NSet}

(* for i in range(loop) *)
(* a loop that stops one trial short *)
loop_continues_short(k) == k < loop - 1

loop_continues(k) == k < loop

(* where the harness goes after the call: on to the accumulators, or out   *)
(* of the program with the exception (there is no try/except)              *)
(* a harness that carries on after a failed call *)
after_call_swallow(out) == "cnt_outage"

after_call(out) == IF out.ok THEN "cnt_outage" ELSE "raised"

ResultTuple(r) ==
    [sir |-> r.sir, kvar |-> Fin(r.kvar), err |-> Fin(r.err), pmax |-> r.pmax]

(* res = dosim(sir_d_db, pout, n) *)
Trial ==
    /\ pc = "call"
    /\ loop_continues(i)
    /\ \E call \in DosimCalls :
         LET dr == call[4]
             out == call[5]
         IN /\ call[1] = sir_d_db /\ call[2] = pout /\ call[3] = n
            /\ pc' = after_call(out)
            /\ IF out.ok
               THEN /\ res' = ResultTuple(out.val)
                    /\ hist' = Append(hist, out.val @@ [rng_in |-> rng, zq |-> dr.z[n + 1]])
                    /\ rng' = rng + DRAWS_PER_TRIAL
                    /\ error' = error
               ELSE /\ res' = res
                    /\ hist' = hist
                    /\ rng' = rng + DRAWS_BEFORE_STAGES
                    /\ error' = out.error
    /\ UNCHANGED <<pout, sir_d_db, n, i, cnt_outage, kstdev_avg, rmse, psu_avg,
                   report, contrib, krig>>

(* res[0] < sir_d_db *)
(* the outage event taken as SIR <= target *)
is_outage_inclusive(r, sir) == XLess(r.sir, Fin(sir)) \/ r.sir = Fin(sir)

is_outage(r, sir) == XLess(r.sir, Fin(sir))

Bump(a) == [contrib EXCEPT ![a] = @ + 1]

(* cnt_outage += res[0] < sir_d_db *)
AccOutage ==
    /\ pc = "cnt_outage"
    /\ cnt_outage' = cnt_outage + (IF is_outage(res, sir_d_db) THEN 1 ELSE 0)
    /\ contrib' = Bump("cnt_outage")
    /\ pc' = "kstdev_avg"
    /\ UNCHANGED <<pout, sir_d_db, n, i, res, error, kstdev_avg, rmse, psu_avg,
                   report, rng, hist, krig>>

(* kstdev_avg += np.sqrt(res[1]) *)
AccKstdev ==
    /\ pc = "kstdev_avg"
    /\ kstdev_avg' = XAdd(kstdev_avg, XSqrt(res.kvar))
    /\ contrib' = Bump("kstdev_avg")
    /\ pc' = "rmse"
    /\ UNCHANGED <<pout, sir_d_db, n, i, res, error, cnt_outage, rmse, psu_avg,
                   report, rng, hist, krig>>

(* rmse += res[2]**2 *)
AccRmse ==
    /\ pc = "rmse"
    /\ rmse' = XAdd(rmse, XMulScaled(res.err, res.err, 1))
    /\ contrib' = Bump("rmse")
    /\ pc' = "psu_avg"
    /\ UNCHANGED <<pout, sir_d_db, n, i, res, error, cnt_outage, kstdev_avg, psu_avg,
                   report, rng, hist, krig>>

(* 10.0**(0.1 * res[3]) *)
(* the dB value summed as it is *)
psu_term_db(r) == r.pmax

psu_term(r) == XPow10(r.pmax)

(* psu_avg += 10.0**(0.1 * res[3]), and the loop goes round *)
AccPsu ==
    /\ pc = "psu_avg"
    /\ psu_avg' = XAdd(psu_avg, psu_term(res))
    /\ contrib' = Bump("psu_avg")
    /\ i' = i + 1
    /\ pc' = "call"
    /\ UNCHANGED <<pout, sir_d_db, n, res, error, cnt_outage, kstdev_avg, rmse,
                   report, rng, hist, krig>>

(* rmse = np.sqrt(rmse / loop) and the four prints *)
Report ==
    /\ pc = "call"
    /\ ~loop_continues(i)
    /\ rmse' = XSqrt(XDivInt(rmse, loop))
    /\ report' = [printed |-> TRUE,
                  outage_num |-> cnt_outage, divisor |-> loop,
                  kstdev |-> XDivInt(kstdev_avg, loop),
                  rmse |-> rmse',
                  psu |-> XTenLog10(psu_avg, loop)]
    /\ pc' = "done"
    /\ UNCHANGED <<pout, sir_d_db, n, i, res, error, cnt_outage, kstdev_avg, psu_avg,
                   rng, hist, contrib, krig>>

Next == Trial \/ AccOutage \/ AccKstdev \/ AccRmse \/ AccPsu \/ Report

Spec == Init /\ [][Next]_vars

(* ---------------- the power rule on any kriging result ----------------- *)
(* main.py:90-100 and the harness on kriging results drawn from small sets *)
EstSet == {0 - 75}
KvarSet == {0 - 100, 0 - 1, 0, 36}
PrxSet == {0 - 83, 0 - 67}

InitRule ==
    /\ pout \in PoutSet
    /\ sir_d_db \in SirSet
    /\ n = 3
    /\ InitHarness

TrialRule ==
    /\ pc = "call"
    /\ loop_continues(i)
    /\ \E e \in EstSet, kv \in KvarSet, pq \in PrxSet, su \in SuFields :
         LET r == power_rule(e, kv, pq, su, sir_d_db, pout)
         IN /\ res' = ResultTuple(r)
            /\ hist' = Append(hist, r)
    /\ pc' = "cnt_outage"
    /\ rng' = rng + 1
    /\ UNCHANGED <<pout, sir_d_db, n, i, error, cnt_outage, kstdev_avg, rmse, psu_avg,
                   report, contrib, krig>>

NextRule == TrialRule \/ AccOutage \/ AccKstdev \/ AccRmse \/ AccPsu \/ Report

SpecRule == InitRule /\ [][NextRule]_vars

(* ---------------- the harness on any result tuples --------------------- *)
(* main.py:108-124 on result tuples drawn from small sets; the transmit    *)
(* powers are whole decades, where 10^(P/10) is exact                      *)
SirResults == {Fin(0), Fin(20)}
KvarResults == {Fin(4), Fin(9)}
ErrResults == {Fin(0 - 3)}
PmaxResults == {Fin(0), Fin(10), Fin(20)}

InitAvg ==
    /\ pout = 1
    /\ sir_d_db \in SirSet
    /\ n = 3
    /\ InitHarness

DrawResult ==
    /\ pc = "call"
    /\ loop_continues(i)
    /\ \E r \in [sir : SirResults, kvar : KvarResults, err : ErrResults, pmax : PmaxResults] :
         /\ res' = r
         /\ hist' = Append(hist, r)
    /\ pc' = "cnt_outage"
    /\ UNCHANGED <<pout, sir_d_db, n, i, error, cnt_outage, kstdev_avg, rmse, psu_avg,
                   report, rng, contrib, krig>>

NextAvg == DrawResult \/ AccOutage \/ AccKstdev \/ AccRmse \/ AccPsu \/ Report

SpecAvg == InitAvg /\ [][NextAvg]_vars

(* ---------------- the kriging solver on its own ------------------------ *)
KrigPoints == { <<100, 0>>, <<0, 100>>, <<0 - 60, 80>> }
KrigLocs == {<<a, b>> : a \in KrigPoints, b \in KrigPoints}
            \cup { << <<100, 0>>, <<0, 100>>, <<0 - 60, 80>> >> }
KrigValues == {0 - 83, 0 - 67}
KrigQueries == KrigPoints \cup {RX}

InitKrig ==
    /\ pout = 1
    /\ sir_d_db \in SirSet
    /\ n = 3
    /\ InitHarness

KrigingQuery ==
    /\ ~krig.asked
    /\ \E locs \in KrigLocs, prm \in ParamGrid, q \in KrigQueries :
         \E values \in [1..Len(locs) -> KrigValues] :
            krig' = [asked |-> TRUE, locs |-> locs, values |-> values, prm |-> prm, q |-> q,
                     out |-> ordinary_kriging(gen_mat_for_kriging(locs, prm),
                                              locs, values, q, prm)]
    /\ UNCHANGED <<pout, sir_d_db, n, i, pc, res, error, cnt_outage, kstdev_avg, rmse,
                   psu_avg, report, rng, hist, contrib>>

NextKrig == KrigingQuery

SpecKrig == InitKrig /\ [][NextKrig]_vars

(* ======================= properties ==================================== *)
Trials == 1..Len(hist)
AtBoundary == pc \in {"call", "raised", "done"}

RECURSIVE SumHist(_, _)
SumHist(term(_), k) == IF k = 0 THEN Fin(0) ELSE XAdd(SumHist(term, k - 1), term(hist[k]))

KstdevTerm(r) == XSqrt(Fin(r.kvar))
SqErrTerm(r) == Fin(r.err * r.err)
LinearTerm(r) == XPow10(r.pmax)

(* C1: a trial contributes to all four sums or to none. Between trials and *)
(* after a raised failure every sum has taken exactly the trials whose     *)
(* dosim call returned, the sums hold the results of those trials and      *)
(* nothing else, and a failure leaves the run stopped with no report.      *)
C1_AllOrNothing ==
    /\ AtBoundary => \A a \in Accumulators : contrib[a] = Len(hist)
    /\ pc \in {"call", "raised"} =>
         /\ kstdev_avg = SumHist(KstdevTerm, Len(hist))
         /\ rmse = SumHist(SqErrTerm, Len(hist))
         /\ psu_avg = SumHist(LinearTerm, Len(hist))
         /\ cnt_outage = Cardinality({k \in Trials : XLess(hist[k].sir, Fin(sir_d_db))})
    /\ error # "none" => pc = "raised" /\ report = NoReport /\ Len(hist) = i

C1_Witness ==
    /\ pc = "raised"
    /\ error \in {"InsufficientDataError", "FitConvergenceError", "SingularSystemError"}
    /\ Len(hist) >= 1
    /\ contrib["psu_avg"] = Len(hist)

(* C2 as stated: with pout = 0 or pout = 1 no call returns a result *)
C2_BoundaryRejected == pout \in {0, 10} => Len(hist) = 0 /\ res = NoRes

(* C5: the outage count is the number of returned trials with SIR strictly *)
(* below the target; it lies between 0 and the number of returned trials   *)
(* at every point, and the report divides it by the trial count.           *)
C5_OutageCount ==
    /\ 0 <= cnt_outage /\ cnt_outage <= Len(hist)
    /\ AtBoundary =>
         cnt_outage = Cardinality({k \in Trials :
                                      \/ hist[k].sir = NegInf
                                      \/ hist[k].sir.k = "fin" /\ hist[k].sir.v < sir_d_db})
    /\ report.printed =>
         /\ report.outage_num = cnt_outage
         /\ report.divisor = loop
         /\ 0 <= report.outage_num /\ report.outage_num <= report.divisor

C5_Witness ==
    /\ pc = "done"
    /\ \E k \in Trials : hist[k].sir = Fin(sir_d_db)
    /\ \E k \in Trials : hist[k].sir.k = "fin" /\ hist[k].sir.v < sir_d_db
    /\ cnt_outage = 1

(* C6 as stated: no trial reads state another trial wrote, so every trial  *)
(* starts from the generator state the run started with                    *)
C6_TrialOwnsItsStream == \A k \in Trials : hist[k].rng_in = 0

(* C9: two trials with the same training locations, training values and    *)
(* configuration get the same fitted parameters, estimate, kriging         *)
(* variance and allowed power, whatever the true value at the query is.    *)
C9_QueryNotUsed ==
    \A a \in Trials, b \in Trials :
       (hist[a].locs = hist[b].locs /\ hist[a].values = hist[b].values) =>
          /\ hist[a].param = hist[b].param
          /\ hist[a].est = hist[b].est
          /\ hist[a].kvar = hist[b].kvar
          /\ hist[a].imax = hist[b].imax
          /\ hist[a].pmax = hist[b].pmax

C9_Witness ==
    /\ Len(hist) = 2
    /\ hist[1].locs = hist[2].locs /\ hist[1].values = hist[2].values
    /\ hist[1].zq # hist[2].zq
    /\ hist[1].prx_q # hist[2].prx_q
    /\ hist[1].err # hist[2].err
    /\ hist[1].pmax = hist[2].pmax

(* C10: the harness runs exactly `loop` trials and reports only after the  *)
(* last one; every sum has then taken exactly `loop` contributions and the *)
(* report divides by `loop`. A run that raised reports nothing.            *)
C10_ExactlyLoopTrials ==
    /\ i <= loop /\ Len(hist) <= loop
    /\ report.printed <=> pc = "done"
    /\ pc = "done" =>
         /\ i = loop /\ Len(hist) = loop
         /\ \A a \in Accumulators : contrib[a] = loop
         /\ report.divisor = loop
    /\ pc = "raised" => report = NoReport

C10_Witness == pc = "done" /\ report.printed /\ Len(hist) = loop

(* C3: for a kriging result (estimate, variance) and 0 < pout < 1 the      *)
(* interference bound is estimate - sir_db + sqrt(2 (variance + s^2)) *    *)
(* erfinv(2 pout - 1), the transmit power is the bound plus the path loss  *)
(* L, and the realized SIR is the true power at the query minus (transmit  *)
(* power - L + the secondary shadowing draw). Where variance + s^2 < 0 the *)
(* square root, and with it all three values, is nan.                      *)
C3_PowerRule ==
    (pout > 0 /\ pout < 10) =>
       \A k \in Trials :
          LET r == hist[k]
              under == 2 * (r.kvar + STDEV_SU * STDEV_SU)
              bound == r.est - sir_d_db + (Isqrt(under) * erfinv(pout).v) \div ERF_SCALE
          IN IF under >= 0
             THEN /\ r.imax = Fin(bound)
                  /\ r.pmax = Fin(bound + l_su)
                  /\ r.sir = Fin(r.prx_q - ((bound + l_su) - l_su + r.su))
             ELSE r.imax = NaN /\ r.pmax = NaN /\ r.sir = NaN

C3_Witness ==
    /\ pout = 1
    /\ Len(hist) >= 1
    /\ hist[1].kvar = 36
    /\ hist[1].imax.k = "fin"
    /\ hist[1].imax.v < hist[1].est - sir_d_db
    /\ hist[1].pmax.v = hist[1].imax.v + l_su

(* C4 as stated: the variance that reaches the power rule and the sum of   *)
(* kriging standard deviations is never negative                           *)
C4_VarianceNonNegative ==
    /\ \A k \in Trials : hist[k].kvar >= 0
    /\ kstdev_avg # NaN

RECURSIVE SumInt(_, _)
SumInt(term(_), k) == IF k = 0 THEN 0 ELSE SumInt(term, k - 1) + term(hist[k])

DecadeLinear(r) == LIN * Pow10Int(r.pmax.v \div 10)
DbValue(r) == r.pmax.v

(* C7: the reported average transmit power is 10 log10 of the mean of the  *)
(* linear powers 10^(P_i/10); it is at least the arithmetic mean of the    *)
(* P_i, and strictly above it when the P_i are not all equal.              *)
C7_LinearDomainAverage ==
    pc = "done" =>
       /\ report.psu = Fin(TenLog10(SumInt(DecadeLinear, loop), loop))
       /\ report.psu.v * loop >= SumInt(DbValue, loop)
       /\ (\E a \in Trials, b \in Trials : hist[a].pmax # hist[b].pmax)
             => report.psu.v * loop > SumInt(DbValue, loop)

C7_Witness ==
    /\ pc = "done"
    /\ \E a \in Trials, b \in Trials : hist[a].pmax # hist[b].pmax
    /\ report.psu.k = "fin"
    /\ report.psu.v * loop > SumInt(DbValue, loop)

AtSample(j) == j \in 1..Len(krig.locs) /\ krig.locs[j] = krig.q

=============================================================================
